---- MODULE Spec2Model ----
(***************************************************************************)
(* Model of pkg/helm/release/manager.go: the manager of one Helm release.  *)
(* The manager's fields, the release store, the live cluster objects and   *)
(* the result of the last call are the state; Sync, InstallRelease,        *)
(* UpdateRelease and UninstallRelease are actions, and ReconcileRelease is *)
(* one action for each request it sends to the API server.                 *)
(* The Helm storage backend, the Helm actions and the Kubernetes API are   *)
(* collaborators: their outcomes are inputs the actions draw with \E.      *)
(***************************************************************************)
EXTENDS Integers, Sequences, FiniteSets, TLC

VARIABLES
    store,            \* the storage backend: the set of revisions of the release
    cluster,          \* the live objects, by object name
    chart,            \* m.chart + m.values: the manifest text they render to
    isInstalled,      \* m.isInstalled
    isUpdateRequired, \* m.isUpdateRequired
    deployedRelease,  \* m.deployedRelease (NoRelease is the nil pointer)
    crashed,          \* the last call panicked (nil pointer dereference)
    walk,             \* where a running ReconcileRelease is in its walk of the objects
    lastOp,           \* name of the last step: a manager method that returned, Visit
                      \* (a step of a walk that goes on), NewManager or Drift
    lastErr,          \* the error it returned (Nil is the nil error)
    lastRet,          \* the releases it returned, <<first, second>>
    calls             \* the collaborator calls it issued, in order

vars == <<store, cluster, chart, isInstalled, isUpdateRequired, deployedRelease,
          crashed, walk, lastOp, lastErr, lastRet, calls>>

mgr == <<isInstalled, isUpdateRequired, deployedRelease>>

-----------------------------------------------------------------------------
(* Bounds *)

\* highest revision number the store holds
MaxVersion == 4
\* number of manifest texts the chart and values can render to
NumTexts == 2

Texts == 1..NumTexts

-----------------------------------------------------------------------------
(* Errors.  An error is its message, as the sequence of the pieces the     *)
(* code can look for with strings.Contains, and its Unwrap chain, as the   *)
(* sequence of the identities errors.Is compares.                          *)

Nil == [msg |-> <<>>, chain |-> <<>>]

\* driver.ErrReleaseNotFound: errors.New("release: not found")
ErrReleaseNotFound ==
    [msg |-> <<"release: ", "not found">>, chain |-> <<"driver.ErrReleaseNotFound">>]

\* storage.Deployed without a deployed revision: "%q has no deployed releases"
ErrNoDeployed ==
    [msg |-> <<"has no deployed releases">>, chain |-> <<"storage.noDeployed">>]

\* any store, render or cluster failure that names nothing as missing
ErrTransport ==
    [msg |-> <<"connection refused">>, chain |-> <<"transport">>]

\* a failure of a Helm action that is not the release being absent but whose
\* text says "not found" (Helm: "resource mapping not found for name ...")
ErrMappingNotFound ==
    [msg |-> <<"resource mapping ", "not found", " for name">>, chain |-> <<"kube.mapping">>]

\* fmt.Errorf(prefix + ": %w", err)
Wrap(prefix, err) ==
    [msg |-> <<prefix>> \o err.msg, chain |-> <<prefix>> \o err.chain]

\* fmt.Errorf(prefix + " (%s) and failed rollback: %w", err, second)
WrapBoth(prefix, err, second) ==
    [msg |-> <<prefix>> \o err.msg \o <<" and failed rollback: ">> \o second.msg,
     chain |-> <<prefix>> \o second.chain]

\* fmt.Errorf(prefix + ": %s", err): the text only, nothing to unwrap
WrapText(prefix, err) ==
    [msg |-> <<prefix>> \o err.msg, chain |-> <<prefix>>]

Contains(msg, piece) == \E i \in DOMAIN msg : msg[i] = piece

\* errors.Is(err, target)
Is(err, target) == \E i \in DOMAIN err.chain : err.chain[i] = target.chain[1]

\* a mutant of notFoundErr: the text is looked for in another case
notFoundErr_WrongCase(err) == err # Nil /\ Contains(err.msg, "Not Found")

notFoundErr(err) == err # Nil /\ Contains(err.msg, "not found")

-----------------------------------------------------------------------------
(* Releases and the store *)

\* "noinfo" is a revision whose Info is nil
Statuses == {"noinfo", "pending-install", "deployed", "failed", "superseded", "uninstalled"}

NoRelease == [Version |-> 0, Status |-> "nil", Manifest |-> 0]

Release(v, st, t) == [Version |-> v, Status |-> st, Manifest |-> t]

RECURSIVE SortByRevision(_)
SortByRevision(S) ==
    IF S = {} THEN <<>>
    ELSE LET lo == CHOOSE r \in S : \A q \in S : r.Version <= q.Version
         IN  <<lo>> \o SortByRevision(S \ {lo})

\* storage.History: the revisions of the release, oldest first
History(s) == SortByRevision(s)

DeployedAll(s) == {r \in s : r.Status = "deployed"}

\* storage.Deployed: the newest revision with status deployed
Deployed(s) ==
    IF DeployedAll(s) = {} THEN NoRelease
    ELSE CHOOSE r \in DeployedAll(s) : \A q \in DeployedAll(s) : q.Version <= r.Version

LastVersion(s) == IF s = {} THEN 0
                  ELSE (CHOOSE r \in s : \A q \in s : q.Version <= r.Version).Version

\* the fields of an object that was not read
NoFields == [x |-> 0, y |-> 0]

\* a call of a collaborator: ctx says whether the call is bound to the ctx of
\* the method that issues it, and read is the object the call returned, for
\* the one call that returns one.  The storage backend and the Helm actions
\* take no context.
Call(c, a, r) ==
    [call |-> c, arg |-> a, res |-> r, ops |-> {}, ctx |-> FALSE, read |-> NoFields]

\* a request of expectedClient, which binds every request to ctx
Request(c, a, r) ==
    [call |-> c, arg |-> a, res |-> r, ops |-> {}, ctx |-> TRUE, read |-> NoFields]

\* no ReconcileRelease is running
Idle == [pc |-> "idle", i |-> 0, ops |-> {}]

Count(log, c) == Cardinality({i \in DOMAIN log : log[i].call = c})


-----------------------------------------------------------------------------
(* Sync *)

\* what storage.History can answer: a driver answers an empty history with
\* an empty list or with ErrReleaseNotFound; any read can fail in transport
HistoryOutcomes(s) == IF s = {} THEN {"ok", "notfound", "error"} ELSE {"ok", "error"}

\* what storage.Delete can answer: "notfound" is a revision that was removed
\* by someone else after History was read
DeleteOutcomes == {"ok", "notfound", "error"}

OutcomeErr(o) ==
    CASE o = "ok" -> Nil
      [] o = "notfound" -> ErrReleaseNotFound
      [] o = "mapping" -> ErrMappingNotFound
      [] OTHER -> ErrTransport

\* a mutant of Stale: a revision whose install is pending is not stale
Stale_PendingKept(rel) == rel.Status \notin {"noinfo", "deployed", "pending-install"}

\* a mutant of Stale: only failed revisions are stale
Stale_FailedOnly(rel) == rel.Status = "failed"

\* rel.Info != nil && rel.Info.Status != rpb.StatusDeployed
Stale(rel) == rel.Status # "noinfo" /\ rel.Status # "deployed"

\* a mutant of Prune: every error of a Delete aborts, not found included
RECURSIVE Prune_AbortsOnNotFound(_, _, _, _, _)
Prune_AbortsOnNotFound(releases, i, s, log, del) ==
    IF i > Len(releases) THEN [store |-> s, calls |-> log, err |-> Nil]
    ELSE IF ~Stale(releases[i]) THEN Prune_AbortsOnNotFound(releases, i + 1, s, log, del)
    ELSE LET rel  == releases[i]
             err  == OutcomeErr(del[i])
             s2   == IF del[i] = "error" THEN s ELSE s \ {rel}
             log2 == Append(log, Call("Delete", rel.Version, del[i]))
         IN  IF err # Nil
             THEN [store |-> s2, calls |-> log2,
                   err |-> Wrap("failed to delete stale release version", err)]
             ELSE Prune_AbortsOnNotFound(releases, i + 1, s2, log2, del)

\* the cleanup loop: s is the store and log the calls so far, del[i] the
\* answer of the Delete of releases[i]
RECURSIVE Prune(_, _, _, _, _)
Prune(releases, i, s, log, del) ==
    IF i > Len(releases) THEN [store |-> s, calls |-> log, err |-> Nil]
    ELSE IF ~Stale(releases[i]) THEN Prune(releases, i + 1, s, log, del)
    ELSE LET rel  == releases[i]
             err  == OutcomeErr(del[i])
             s2   == IF del[i] = "error" THEN s ELSE s \ {rel}
             log2 == Append(log, Call("Delete", rel.Version, del[i]))
         IN  IF err # Nil /\ ~notFoundErr(err)
             THEN [store |-> s2, calls |-> log2,
                   err |-> Wrap("failed to delete stale release version", err)]
             ELSE Prune(releases, i + 1, s2, log2, del)

getDeployedRelease(s, dep) ==
    LET err == IF dep = "error" THEN ErrTransport
               ELSE IF Deployed(s) = NoRelease THEN ErrNoDeployed ELSE Nil
    IN  IF err # Nil
        THEN IF Contains(err.msg, "has no deployed releases")
             THEN [rel |-> NoRelease, err |-> ErrReleaseNotFound]
             ELSE [rel |-> NoRelease, err |-> err]
        ELSE [rel |-> Deployed(s), err |-> Nil]

\* the dry-run upgrade: renders chart and values, persists nothing
getCandidateRelease(s, dry) ==
    IF dry = "error" THEN [rel |-> NoRelease, err |-> ErrTransport]
    ELSE [rel |-> Release(LastVersion(s) + 1, "pending-upgrade", chart), err |-> Nil]

\* one answer for the Delete of each stale revision of the history
DeleteAnswers(releases) ==
    {del \in [DOMAIN releases -> DeleteOutcomes] :
        \A i \in DOMAIN releases : ~Stale(releases[i]) => del[i] = "ok"}

\* a mutant of SyncResult: the deployed release is kept only by a Sync that
\* returns no error
SyncResult_ReleaseOnSuccess(s, inst, upd, rel, err, log) ==
    [store |-> s, isInstalled |-> inst, isUpdateRequired |-> upd,
     deployedRelease |-> IF err = Nil THEN rel ELSE deployedRelease,
     err |-> err, calls |-> log]

SyncResult(s, inst, upd, rel, err, log) ==
    [store |-> s, isInstalled |-> inst, isUpdateRequired |-> upd,
     deployedRelease |-> rel, err |-> err, calls |-> log]

\* a mutant of SyncRun: the deployed revision is read before the cleanup
SyncRun_ReadsBeforeCleanup(hist, del, dep, dry) ==
    LET herr     == OutcomeErr(hist)
        releases == IF hist = "ok" THEN History(store) ELSE <<>>
        log0     == <<Call("History", Len(releases), hist)>>
        d        == getDeployedRelease(store, dep)
        log1     == Append(log0, Call("Deployed", 0, IF d.err = Nil THEN "ok"
                                                     ELSE IF dep = "error" THEN "error"
                                                     ELSE "notfound"))
        p        == Prune(releases, 1, store, log1, del)
        c        == getCandidateRelease(p.store, dry)
        log2     == Append(p.calls, Call("DryRunUpgrade", 0, dry))
    IN  IF herr # Nil /\ ~notFoundErr(herr)
        THEN SyncResult(store, isInstalled, isUpdateRequired, deployedRelease,
                        Wrap("failed to retrieve release history", herr), log0)
        ELSE IF d.err # Nil /\ ~Is(d.err, ErrReleaseNotFound)
        THEN SyncResult(store, isInstalled, isUpdateRequired, deployedRelease,
                        Wrap("failed to get deployed release", d.err), log1)
        ELSE IF p.err # Nil \/ d.err # Nil
        THEN SyncResult(p.store, isInstalled, isUpdateRequired, deployedRelease,
                        p.err, p.calls)
        ELSE IF c.err # Nil
        THEN SyncResult(p.store, TRUE, isUpdateRequired, d.rel,
                        Wrap("failed to get candidate release", c.err), log2)
        ELSE SyncResult(p.store, TRUE,
                        IF d.rel.Manifest # c.rel.Manifest THEN TRUE ELSE isUpdateRequired,
                        d.rel, Nil, log2)

\* the body of Sync, with the collaborators' answers as parameters
SyncRun(hist, del, dep, dry) ==
    LET herr     == OutcomeErr(hist)
        releases == IF hist = "ok" THEN History(store) ELSE <<>>
        log0     == <<Call("History", Len(releases), hist)>>
    IN  IF herr # Nil /\ ~notFoundErr(herr)
        THEN SyncResult(store, isInstalled, isUpdateRequired, deployedRelease,
                        Wrap("failed to retrieve release history", herr), log0)
        ELSE
        LET p == Prune(releases, 1, store, log0, del)
        IN  IF p.err # Nil
            THEN SyncResult(p.store, isInstalled, isUpdateRequired, deployedRelease,
                            p.err, p.calls)
            ELSE
            LET d    == getDeployedRelease(p.store, dep)
                log1 == Append(p.calls,
                               Call("Deployed", 0, IF d.err = Nil THEN "ok"
                                                   ELSE IF dep = "error" THEN "error"
                                                   ELSE "notfound"))
            IN  IF Is(d.err, ErrReleaseNotFound)
                THEN SyncResult(p.store, isInstalled, isUpdateRequired, deployedRelease,
                                Nil, log1)
                ELSE IF d.err # Nil
                THEN SyncResult(p.store, isInstalled, isUpdateRequired, deployedRelease,
                                Wrap("failed to get deployed release", d.err), log1)
                ELSE
                LET c    == getCandidateRelease(p.store, dry)
                    log2 == Append(log1, Call("DryRunUpgrade", 0, dry))
                IN  IF c.err # Nil
                    THEN SyncResult(p.store, TRUE, isUpdateRequired, d.rel,
                                    Wrap("failed to get candidate release", c.err), log2)
                    ELSE SyncResult(p.store, TRUE,
                                    IF d.rel.Manifest # c.rel.Manifest
                                    THEN TRUE ELSE isUpdateRequired,
                                    d.rel, Nil, log2)

\* the answers of the calls that follow a failed call are never read: they
\* are fixed to "ok", so that each run of Sync is drawn once
AnswersRead(hist, del, dep, dry) ==
    LET failed == \E i \in DOMAIN del : del[i] = "error"
    IN  /\ hist # "ok" => \A i \in DOMAIN del : del[i] = "ok"
        /\ \A i, j \in DOMAIN del : (del[i] = "error" /\ j > i) => del[j] = "ok"
        /\ (hist = "error" \/ failed) => dep = "ok"
        /\ (hist = "error" \/ failed \/ dep = "error") => dry = "ok"

Sync ==
    /\ ~crashed /\ walk = Idle
    /\ \E hist \in HistoryOutcomes(store), del \in DeleteAnswers(History(store)) :
       \E dep \in {"ok", "error"}, dry \in {"ok", "error"} :
          /\ AnswersRead(hist, del, dep, dry)
          /\ \E r \in {SyncRun(hist, del, dep, dry)} :
                 /\ store' = r.store
                 /\ isInstalled' = r.isInstalled
                 /\ isUpdateRequired' = r.isUpdateRequired
                 /\ deployedRelease' = r.deployedRelease
                 /\ lastErr' = r.err
                 /\ calls' = r.calls
    /\ lastOp' = "Sync"
    /\ lastRet' = <<NoRelease, NoRelease>>
    /\ UNCHANGED <<cluster, chart, crashed, walk>>

-----------------------------------------------------------------------------
(* Manifests, objects and patches *)

Names == {"a", "b"}
Fields == {"x", "y"}

\* texts 2k and 2k+1 render the same objects with different formatting
Variant(t) == (t \div 2) + 1

\* a field with value 0 is a field the object does not have
Object(n, x, y) == [name |-> n, fields |-> [x |-> x, y |-> y]]

\* kubeClient.Build: the objects of a manifest text, in manifest order
Build(t) == <<Object("a", Variant(t), 0), Object("b", 1, 0)>>

Absent == [exists |-> FALSE, fields |-> NoFields]
Live(fields) == [exists |-> TRUE, fields |-> fields]

\* what a live object can be: "a" with any value of x, one of them rendered by
\* no manifest, and with or without the live-only field y; "b" with or
\* without its x
LiveObjects(n) ==
    {Absent} \cup
    (IF n = "a" THEN {Live([x |-> v, y |-> w]) : v \in 0..(Variant(NumTexts) + 1), w \in 0..1}
     ELSE {Live([x |-> v, y |-> 0]) : v \in 0..1})

Has(obj, f) == obj[f] # 0

\* jsonpatch.CreatePatch: the full structural diff of two serialized objects
CreatePatch(existing, expected) ==
    {[op |-> "add", path |-> f, value |-> expected[f]] :
        f \in {g \in Fields : Has(expected, g) /\ ~Has(existing, g)}}
    \cup
    {[op |-> "replace", path |-> f, value |-> expected[f]] :
        f \in {g \in Fields : Has(expected, g) /\ Has(existing, g)
                              /\ expected[g] # existing[g]}}
    \cup
    {[op |-> "remove", path |-> f, value |-> 0] :
        f \in {g \in Fields : ~Has(expected, g) /\ Has(existing, g)}}

NilPatch == [isNil |-> TRUE, ops |-> {}]

\* a mutant of generatePatch: the remove operations are kept
generatePatch_KeepRemove(existing, expected, marshal) ==
    IF marshal = "error" THEN [patch |-> NilPatch, err |-> ErrTransport]
    ELSE IF CreatePatch(existing, expected) = {} THEN [patch |-> NilPatch, err |-> Nil]
    ELSE [patch |-> [isNil |-> FALSE, ops |-> CreatePatch(existing, expected)], err |-> Nil]

\* a mutant of generatePatch: an empty patch is returned, not nil
generatePatch_EmptyNotNil(existing, expected, marshal) ==
    IF marshal = "error" THEN [patch |-> NilPatch, err |-> ErrTransport]
    ELSE [patch |-> [isNil |-> FALSE,
                     ops |-> {o \in CreatePatch(existing, expected) : o.op # "remove"}],
          err |-> Nil]

\* a mutant of generatePatch: the filter drops the add operations
generatePatch_FiltersAdd(existing, expected, marshal) ==
    IF marshal = "error" THEN [patch |-> NilPatch, err |-> ErrTransport]
    ELSE LET patchOps == {o \in CreatePatch(existing, expected) : o.op # "add"}
         IN  IF patchOps = {} THEN [patch |-> NilPatch, err |-> Nil]
             ELSE [patch |-> [isNil |-> FALSE, ops |-> patchOps], err |-> Nil]

generatePatch(existing, expected, marshal) ==
    IF marshal = "error" THEN [patch |-> NilPatch, err |-> ErrTransport]
    ELSE LET ops      == CreatePatch(existing, expected)
             patchOps == {o \in ops : o.op # "remove"}
         IN  IF patchOps = {} THEN [patch |-> NilPatch, err |-> Nil]
             ELSE [patch |-> [isNil |-> FALSE, ops |-> patchOps], err |-> Nil]

\* the API server applying a JSON patch to a live object
ApplyPatch(fields, ops) ==
    [f \in Fields |->
        IF \E o \in ops : o.path = f
        THEN (CHOOSE o \in ops : o.path = f).value
        ELSE fields[f]]

PatchCall(i, ops, r) ==
    [call |-> "Patch", arg |-> i, res |-> r, ops |-> ops, ctx |-> TRUE, read |-> NoFields]

\* helper.Get and the object it returned
GetCall(i, r, fields) ==
    [call |-> "Get", arg |-> i, res |-> r, ops |-> {}, ctx |-> TRUE,
     read |-> IF r = "ok" THEN fields ELSE NoFields]

-----------------------------------------------------------------------------
(* ReconcileRelease.  Build and every Get, Create and Patch is a request   *)
(* that blocks until the API server answers, so each of them is a step of  *)
(* its own: what another writer does to the objects between two requests   *)
(* is what the later request finds.  What the callback computes after a    *)
(* request, generatePatch included, belongs to the step of that request.   *)

\* the objects expectedInfos.Visit walks
WalkObjects == Build(deployedRelease.Manifest)

\* what helper.Get can answer for a live object
GetOutcomes(live) == IF live.exists THEN {"ok", "error"} ELSE {"notfound", "error"}

\* what helper.Create can answer: an object that exists by now is not created
CreateOutcomes(live) == IF live.exists THEN {"error"} ELSE {"ok", "error"}

\* what helper.Patch can answer: a JSON patch applies to an object that
\* exists and has every field the patch replaces
PatchOutcomes(live, ops) ==
    IF live.exists /\ \A o \in ops : o.op = "replace" => Has(live.fields, o.path)
    THEN {"ok", "error"} ELSE {"error"}

\* the callback is about to send the request pc for object i
Pending(pc, i, ops, log) ==
    /\ walk' = [pc |-> pc, i |-> i, ops |-> ops]
    /\ lastOp' = "Visit"
    /\ lastErr' = Nil
    /\ lastRet' = <<NoRelease, NoRelease>>
    /\ calls' = log

\* a mutant of Advance: the walk goes on to the next object after an error
Advance_KeepsGoing(i, err, log) ==
    IF i < Len(WalkObjects)
    THEN Pending("get", i + 1, {}, log)
    ELSE /\ walk' = Idle
         /\ lastOp' = "ReconcileRelease"
         /\ lastErr' = err
         /\ lastRet' = <<deployedRelease, NoRelease>>
         /\ calls' = log

\* the callback on object i returned err (i = 0: Build returned err): Visit
\* calls it on the next object, or it stops, at the first error or after the
\* last object, and ReconcileRelease returns
Advance(i, err, log) ==
    IF err = Nil /\ i < Len(WalkObjects)
    THEN Pending("get", i + 1, {}, log)
    ELSE /\ walk' = Idle
         /\ lastOp' = "ReconcileRelease"
         /\ lastErr' = err
         /\ lastRet' = <<deployedRelease, NoRelease>>
         /\ calls' = log

\* m.deployedRelease.Manifest dereferences a nil pointer when no release is held
ReconcilePanics ==
    /\ ~crashed /\ walk = Idle
    /\ deployedRelease = NoRelease
    /\ crashed' = TRUE
    /\ lastOp' = "ReconcileRelease"
    /\ lastErr' = Nil
    /\ lastRet' = <<NoRelease, NoRelease>>
    /\ calls' = <<>>
    /\ UNCHANGED <<store, cluster, chart, mgr, walk>>

\* ReconcileRelease on a manager that holds a release: kubeClient.Build
ReconcileBuild ==
    /\ ~crashed /\ walk = Idle
    /\ deployedRelease # NoRelease
    /\ \E build \in {"ok", "error"} :
          Advance(0, OutcomeErr(build),
                  <<Call("Build", deployedRelease.Manifest, build)>>)
    /\ UNCHANGED <<store, cluster, chart, mgr, crashed>>

\* helper.Get of the object the walk is at, and generatePatch of what it read
ReconcileGet ==
    /\ walk.pc = "get"
    /\ LET i        == walk.i
           expected == WalkObjects[i]
           live     == cluster[expected.name]
       IN  \E get \in GetOutcomes(live), marshal \in {"ok", "error"} :
              /\ get # "ok" => marshal = "ok"
              /\ LET log == Append(calls, GetCall(i, get, live.fields))
                     g   == generatePatch(live.fields, expected.fields, marshal)
                 IN  IF get = "notfound" THEN Pending("create", i, {}, log)
                     ELSE IF get = "error" THEN Advance(i, ErrTransport, log)
                     ELSE IF g.err # Nil
                     THEN Advance(i, Wrap("failed to marshal JSON patch", g.err), log)
                     ELSE IF g.patch.isNil THEN Advance(i, Nil, log)
                     ELSE Pending("patch", i, g.patch.ops, log)
    /\ UNCHANGED <<store, cluster, chart, mgr, crashed>>

\* helper.Create of the object whose Get answered not found
ReconcileCreate ==
    /\ walk.pc = "create"
    /\ LET i        == walk.i
           expected == WalkObjects[i]
           live     == cluster[expected.name]
       IN  \E create \in CreateOutcomes(live) :
              /\ cluster' = IF create = "ok"
                            THEN [cluster EXCEPT ![expected.name] = Live(expected.fields)]
                            ELSE cluster
              /\ Advance(i, IF create = "ok" THEN Nil
                            ELSE WrapText("create error", ErrTransport),
                         Append(calls, Request("Create", i, create)))
    /\ UNCHANGED <<store, chart, mgr, crashed>>

\* helper.Patch with the patch computed from what Get read
ReconcilePatch ==
    /\ walk.pc = "patch"
    /\ LET i        == walk.i
           expected == WalkObjects[i]
           live     == cluster[expected.name]
       IN  \E patch \in PatchOutcomes(live, walk.ops) :
              /\ cluster' = IF patch = "ok"
                            THEN [cluster EXCEPT ![expected.name] =
                                      Live(ApplyPatch(live.fields, walk.ops))]
                            ELSE cluster
              /\ Advance(i, IF patch = "ok" THEN Nil
                            ELSE Wrap("patch error", ErrTransport),
                         Append(calls, PatchCall(i, walk.ops, patch)))
    /\ UNCHANGED <<store, chart, mgr, crashed>>

-----------------------------------------------------------------------------
(* The Helm actions (collaborators): what they answer and what they leave  *)
(* in the store and in the cluster.                                        *)

\* the error of a failed install or upgrade mutation
ErrInstall == [msg |-> <<"install failed">>, chain |-> <<"helm.install">>]
ErrUpgrade == [msg |-> <<"upgrade failed">>, chain |-> <<"helm.upgrade">>]

\* install.Run: "ok"; "fail" returns no release; "partial" returns a release it
\* did not record (the manifest did not render); "recorded" returns a release
\* it recorded as failed.  A name in use only fails.
InstallOutcomes(s) == IF s = {} THEN {"ok", "fail", "partial", "recorded"} ELSE {"fail"}

InstallStore(s, ins) ==
    CASE ins = "ok" -> {Release(1, "deployed", chart)}
      [] ins = "recorded" -> {Release(1, "failed", chart)}
      [] OTHER -> s

InstallReturn(ins) ==
    CASE ins = "ok" -> Release(1, "deployed", chart)
      [] ins \in {"partial", "recorded"} -> Release(1, "failed", chart)
      [] OTHER -> NoRelease

\* Helm applying a manifest: every object of it exists with the rendered
\* fields, and keeps the fields the manifest does not name
ApplyManifest(cl, t) ==
    [n \in Names |->
        LET e == CHOOSE o \in {Build(t)[i] : i \in DOMAIN Build(t)} : o.name = n
        IN  Live([f \in Fields |-> IF Has(e.fields, f) THEN e.fields[f]
                                   ELSE cl[n].fields[f]])]

NoObjects == [n \in Names |-> Absent]

\* uninstall.Run as the compensation of an install: "notfound" when there is
\* no release to remove; "mapping" fails on a kind the cluster does not know
CompensationOutcomes(s) ==
    IF s = {} THEN {"notfound", "error"} ELSE {"ok", "error", "mapping"}

\* upgrade.Run: "recorded" returns a release it recorded as failed
UpgradeOutcomes(s) ==
    IF Deployed(s) # NoRelease /\ LastVersion(s) < MaxVersion
    THEN {"ok", "fail", "recorded"} ELSE {"fail"}

Supersede(s) ==
    {IF r.Status = "deployed" THEN Release(r.Version, "superseded", r.Manifest) ELSE r :
        r \in s}

UpgradeStore(s, up) ==
    CASE up = "ok" -> Supersede(s) \cup {Release(LastVersion(s) + 1, "deployed", chart)}
      [] up = "recorded" -> s \cup {Release(LastVersion(s) + 1, "failed", chart)}
      [] OTHER -> s

UpgradeReturn(s, up) ==
    CASE up = "ok" -> Release(LastVersion(s) + 1, "deployed", chart)
      [] up = "recorded" -> Release(LastVersion(s) + 1, "failed", chart)
      [] OTHER -> NoRelease

\* rollback.Run with Force: a new deployed revision with the manifest of the
\* revision deployed before the failed upgrade
RollbackOutcomes(s) ==
    IF Deployed(s) # NoRelease /\ LastVersion(s) < MaxVersion
    THEN {"ok", "error", "notfound"} ELSE {"error", "notfound"}

RollbackStore(s, rb) ==
    IF rb = "ok"
    THEN {IF r.Status \in {"deployed", "failed"}
          THEN Release(r.Version, "superseded", r.Manifest) ELSE r : r \in s}
         \cup {Release(LastVersion(s) + 1, "deployed", Deployed(s).Manifest)}
    ELSE s

-----------------------------------------------------------------------------
(* InstallRelease *)

Returned(rel, second, err, log) == [rel |-> rel, second |-> second, err |-> err, calls |-> log]

\* the body of InstallRelease: ins and un are the answers of install.Run and
\* of the compensating uninstall.Run
InstallRun(ins, un) ==
    LET installedRelease == InstallReturn(ins)
        err  == IF ins = "ok" THEN Nil ELSE ErrInstall
        log0 == <<Call("Install", 0, ins)>>
    IN  IF err # Nil
        THEN IF installedRelease # NoRelease
             THEN LET uninstallErr == OutcomeErr(un)
                      log1 == Append(log0, Call("Uninstall", 0, un))
                  IN  IF uninstallErr # Nil /\ ~notFoundErr(uninstallErr)
                      THEN Returned(NoRelease, NoRelease,
                                    WrapBoth("failed installation", err, uninstallErr), log1)
                      ELSE Returned(NoRelease, NoRelease,
                                    Wrap("failed to install release", err), log1)
             ELSE Returned(NoRelease, NoRelease, Wrap("failed to install release", err), log0)
        ELSE Returned(installedRelease, NoRelease, Nil, log0)

\* a mutant of InstallRelease: a pointer receiver that marks the release as
\* installed when the install succeeds
InstallRelease_MarksInstalled ==
    /\ ~crashed /\ walk = Idle
    /\ \E ins \in InstallOutcomes(store) :
       \E un \in CompensationOutcomes(InstallStore(store, ins)) \cup {"none"} :
          /\ un = "none" <=> ins \in {"ok", "fail"}
          /\ \E r \in {InstallRun(ins, un)} :
             LET s1      == InstallStore(store, ins)
                 undone  == Count(r.calls, "Uninstall") > 0 /\ un = "ok"
             IN  /\ store' = IF undone THEN {} ELSE s1
                 /\ cluster' = IF ins = "ok" THEN ApplyManifest(cluster, chart)
                               ELSE IF undone THEN NoObjects ELSE cluster
                 /\ isInstalled' = (isInstalled \/ r.err = Nil)
                 /\ deployedRelease' = IF r.err = Nil THEN r.rel ELSE deployedRelease
                 /\ lastErr' = r.err
                 /\ lastRet' = <<r.rel, r.second>>
                 /\ calls' = r.calls
    /\ lastOp' = "InstallRelease"
    /\ UNCHANGED <<chart, isUpdateRequired, crashed, walk>>

InstallRelease ==
    /\ ~crashed /\ walk = Idle
    /\ \E ins \in InstallOutcomes(store) :
       \E un \in CompensationOutcomes(InstallStore(store, ins)) \cup {"none"} :
          /\ un = "none" <=> ins \in {"ok", "fail"}
          /\ \E r \in {InstallRun(ins, un)} :
             LET s1      == InstallStore(store, ins)
                 undone  == Count(r.calls, "Uninstall") > 0 /\ un = "ok"
             IN  /\ store' = IF undone THEN {} ELSE s1
                 /\ cluster' = IF ins = "ok" THEN ApplyManifest(cluster, chart)
                               ELSE IF undone THEN NoObjects ELSE cluster
                 /\ lastErr' = r.err
                 /\ lastRet' = <<r.rel, r.second>>
                 /\ calls' = r.calls
    /\ lastOp' = "InstallRelease"
    /\ UNCHANGED <<chart, mgr, crashed, walk>>

-----------------------------------------------------------------------------
(* UpdateRelease *)

\* a mutant of UpdateRun: an update that was rolled back counts as done
UpdateRun_RollbackMasks(up, rb) ==
    LET updatedRelease == UpgradeReturn(store, up)
        err  == IF up = "ok" THEN Nil ELSE ErrUpgrade
        log0 == <<Call("Upgrade", 0, up)>>
        log1 == Append(log0, Call("Rollback", 1, rb))
    IN  IF err # Nil /\ updatedRelease # NoRelease
        THEN IF OutcomeErr(rb) # Nil
             THEN Returned(NoRelease, NoRelease,
                           WrapBoth("failed update", err, OutcomeErr(rb)), log1)
             ELSE Returned(deployedRelease, updatedRelease, Nil, log1)
        ELSE IF err # Nil
        THEN Returned(NoRelease, NoRelease, Wrap("failed to update release", err), log0)
        ELSE Returned(deployedRelease, updatedRelease, err, log0)

\* a mutant of UpdateRun: a rollback that finds nothing is let pass, as the
\* uninstall after a failed install is
UpdateRun_NotFoundPasses(up, rb) ==
    LET updatedRelease == UpgradeReturn(store, up)
        err  == IF up = "ok" THEN Nil ELSE ErrUpgrade
        log0 == <<Call("Upgrade", 0, up)>>
        log1 == Append(log0, Call("Rollback", 1, rb))
    IN  IF err # Nil /\ updatedRelease # NoRelease
        THEN IF OutcomeErr(rb) # Nil /\ ~notFoundErr(OutcomeErr(rb))
             THEN Returned(NoRelease, NoRelease,
                           WrapBoth("failed update", err, OutcomeErr(rb)), log1)
             ELSE Returned(NoRelease, NoRelease, Wrap("failed to update release", err), log1)
        ELSE IF err # Nil
        THEN Returned(NoRelease, NoRelease, Wrap("failed to update release", err), log0)
        ELSE Returned(deployedRelease, updatedRelease, err, log0)

\* a mutant of UpdateRun: a successful update returns the new release alone
UpdateRun_OnlyNewRelease(up, rb) ==
    LET updatedRelease == UpgradeReturn(store, up)
        err  == IF up = "ok" THEN Nil ELSE ErrUpgrade
        log0 == <<Call("Upgrade", 0, up)>>
        log1 == Append(log0, Call("Rollback", 1, rb))
    IN  IF err # Nil /\ updatedRelease # NoRelease
        THEN IF OutcomeErr(rb) # Nil
             THEN Returned(NoRelease, NoRelease,
                           WrapBoth("failed update", err, OutcomeErr(rb)), log1)
             ELSE Returned(NoRelease, NoRelease, Wrap("failed to update release", err), log1)
        ELSE IF err # Nil
        THEN Returned(NoRelease, NoRelease, Wrap("failed to update release", err), log0)
        ELSE Returned(updatedRelease, NoRelease, err, log0)

\* the body of UpdateRelease: up and rb are the answers of upgrade.Run and of
\* the forced rollback.Run (the 1 of the Rollback call is rollback.Force)
UpdateRun(up, rb) ==
    LET updatedRelease == UpgradeReturn(store, up)
        err  == IF up = "ok" THEN Nil ELSE ErrUpgrade
        log0 == <<Call("Upgrade", 0, up)>>
    IN  IF err # Nil
        THEN IF updatedRelease # NoRelease
             THEN LET rollbackErr == OutcomeErr(rb)
                      log1 == Append(log0, Call("Rollback", 1, rb))
                  IN  IF rollbackErr # Nil
                      THEN Returned(NoRelease, NoRelease,
                                    WrapBoth("failed update", err, rollbackErr), log1)
                      ELSE Returned(NoRelease, NoRelease,
                                    Wrap("failed to update release", err), log1)
             ELSE Returned(NoRelease, NoRelease, Wrap("failed to update release", err), log0)
        ELSE Returned(deployedRelease, updatedRelease, err, log0)

UpdateRelease ==
    /\ ~crashed /\ walk = Idle
    /\ \E up \in UpgradeOutcomes(store) :
       \E rb \in RollbackOutcomes(UpgradeStore(store, up)) \cup {"none"} :
          /\ rb = "none" <=> up \in {"ok", "fail"}
          /\ \E r \in {UpdateRun(up, rb)} :
             LET s1     == UpgradeStore(store, up)
                 rolled == Count(r.calls, "Rollback") > 0 /\ rb = "ok"
             IN  /\ store' = IF rolled THEN RollbackStore(s1, rb) ELSE s1
                 /\ cluster' = IF up = "ok" THEN ApplyManifest(cluster, chart)
                               ELSE IF rolled THEN ApplyManifest(cluster, Deployed(s1).Manifest)
                               ELSE cluster
                 /\ lastErr' = r.err
                 /\ lastRet' = <<r.rel, r.second>>
                 /\ calls' = r.calls
    /\ lastOp' = "UpdateRelease"
    /\ UNCHANGED <<chart, mgr, crashed, walk>>

-----------------------------------------------------------------------------
(* UninstallRelease *)

\* uninstall.Run: "ok"; "partial" removes the release and reports errors with
\* its response; "noresp" fails with no response at all, as it does when
\* there is no release to remove
UninstallOutcomes(s) == IF s = {} THEN {"noresp"} ELSE {"ok", "partial", "noresp"}

\* the release of the uninstall response
UninstalledRelease(s) ==
    LET last == CHOOSE r \in s : r.Version = LastVersion(s)
    IN  Release(last.Version, "uninstalled", last.Manifest)

Uninstalled(rel, err, log, ran, panic) ==
    [rel |-> rel, err |-> err, calls |-> log, ran |-> ran, panic |-> panic]

\* a mutant of UninstallRun: the history is not checked for being empty
UninstallRun_NoEmptyCheck(hist, un) ==
    LET h    == IF hist = "ok" THEN History(store) ELSE <<>>
        err  == OutcomeErr(hist)
        log0 == <<Call("History", Len(h), hist)>>
    IN  IF err # Nil
        THEN Uninstalled(NoRelease, Wrap("failed to get release history", err), log0,
                         FALSE, FALSE)
        ELSE Uninstalled(IF un = "ok" THEN UninstalledRelease(store) ELSE NoRelease,
                         IF un = "ok" THEN Nil ELSE ErrTransport,
                         Append(log0, Call("Uninstall", 0, un)), TRUE, un = "noresp")

\* the body of UninstallRelease: hist and un are the answers of History and of
\* uninstall.Run; ran says that the mutation ran, panic that
\* uninstallResponse.Release dereferenced a nil response
UninstallRun(hist, un) ==
    LET h    == IF hist = "ok" THEN History(store) ELSE <<>>
        err  == OutcomeErr(hist)
        log0 == <<Call("History", Len(h), hist)>>
    IN  IF err # Nil
        THEN Uninstalled(NoRelease, Wrap("failed to get release history", err), log0,
                         FALSE, FALSE)
        ELSE IF Len(h) = 0
        THEN Uninstalled(NoRelease, ErrReleaseNotFound, log0, FALSE, FALSE)
        ELSE LET log1 == Append(log0, Call("Uninstall", 0, un))
             IN  IF un = "noresp"
                 THEN Uninstalled(NoRelease, Nil, log1, TRUE, TRUE)
                 ELSE Uninstalled(UninstalledRelease(store),
                                  IF un = "ok" THEN Nil ELSE ErrTransport,
                                  log1, TRUE, FALSE)

UninstallRelease ==
    /\ ~crashed /\ walk = Idle
    /\ \E hist \in HistoryOutcomes(store), un \in UninstallOutcomes(store) \cup {"none"} :
          \E r \in {UninstallRun(hist, IF un = "none" THEN "noresp" ELSE un)} :
              /\ un = "none" <=> ~r.ran
              /\ store' = IF r.ran /\ un # "noresp" THEN {} ELSE store
              /\ cluster' = IF r.ran /\ un = "ok" THEN NoObjects ELSE cluster
              /\ crashed' = r.panic
              /\ lastErr' = r.err
              /\ lastRet' = <<r.rel, NoRelease>>
              /\ calls' = r.calls
    /\ lastOp' = "UninstallRelease"
    /\ UNCHANGED <<chart, mgr, walk>>

-----------------------------------------------------------------------------
(* The environment *)

\* someone else changes, creates or deletes a live object, between two
\* calls of the manager or between two requests of a ReconcileRelease
Drift ==
    /\ ~crashed
    /\ \E n \in Names : \E o \in LiveObjects(n) :
          /\ cluster[n] # o
          /\ cluster' = [cluster EXCEPT ![n] = o]
    /\ lastOp' = "Drift"
    /\ lastErr' = Nil
    /\ lastRet' = <<NoRelease, NoRelease>>
    /\ calls' = IF walk = Idle THEN <<>> ELSE calls
    /\ UNCHANGED <<store, chart, mgr, crashed, walk>>

\* the controller builds a new manager for the next pass, with the same
\* chart and values
NewManager ==
    /\ walk = Idle
    /\ chart' = chart
    /\ isInstalled' = FALSE
    /\ isUpdateRequired' = FALSE
    /\ deployedRelease' = NoRelease
    /\ crashed' = FALSE
    /\ lastOp' = "NewManager"
    /\ lastErr' = Nil
    /\ lastRet' = <<NoRelease, NoRelease>>
    /\ calls' = <<>>
    /\ UNCHANGED <<store, cluster, walk>>

-----------------------------------------------------------------------------
(* The specification *)

\* the histories the first manager finds: no release, or one revision in any status
InitHistories ==
    {h \in SUBSET {Release(1, st, 1) : st \in Statuses \ {"superseded", "uninstalled"}} :
        /\ \A r, q \in h : r.Version = q.Version => r = q
        /\ Cardinality(DeployedAll(h)) <= 1}

Init ==
    /\ store \in InitHistories
    /\ cluster = NoObjects
    /\ chart \in Texts
    /\ isInstalled = FALSE
    /\ isUpdateRequired = FALSE
    /\ deployedRelease = NoRelease
    /\ crashed = FALSE
    /\ walk = Idle
    /\ lastOp = "NewManager"
    /\ lastErr = Nil
    /\ lastRet = <<NoRelease, NoRelease>>
    /\ calls = <<>>

Next ==
    \/ Sync
    \/ InstallRelease
    \/ UpdateRelease
    \/ ReconcilePanics
    \/ ReconcileBuild
    \/ ReconcileGet
    \/ ReconcileCreate
    \/ ReconcilePatch
    \/ UninstallRelease
    \/ NewManager

\* the life of a release: every method of the manager, in any order, with
\* every answer of the collaborators
Spec == Init /\ [][Next]_vars

\* a deployed release whose objects drift: passes of Sync and ReconcileRelease
\* over a cluster that someone else keeps changing, also while a
\* ReconcileRelease walks it
InitDrift ==
    /\ \E t \in Texts : store = {Release(1, "deployed", t)}
    /\ cluster = NoObjects
    /\ chart \in Texts
    /\ isInstalled = FALSE
    /\ isUpdateRequired = FALSE
    /\ deployedRelease = NoRelease
    /\ crashed = FALSE
    /\ walk = Idle
    /\ lastOp = "NewManager"
    /\ lastErr = Nil
    /\ lastRet = <<NoRelease, NoRelease>>
    /\ calls = <<>>

NextDrift ==
    \/ Sync
    \/ ReconcilePanics
    \/ ReconcileBuild
    \/ ReconcileGet
    \/ ReconcileCreate
    \/ ReconcilePatch
    \/ Drift
    \/ NewManager

SpecDrift == InitDrift /\ [][NextDrift]_vars

-----------------------------------------------------------------------------
(* The controller loop: on each tick a new manager, Sync, and then the one *)
(* method the flags ask for.  A tick ends with that method or with a Sync  *)
(* that returned an error.                                                 *)

TickSync ==
    /\ lastOp = "NewManager"
    /\ Sync

TickInstall ==
    /\ lastOp = "Sync" /\ lastErr = Nil
    /\ ~isInstalled
    /\ InstallRelease

TickUpdate ==
    /\ lastOp = "Sync" /\ lastErr = Nil
    /\ isInstalled /\ isUpdateRequired
    /\ UpdateRelease

TickReconcile ==
    /\ lastOp = "Sync" /\ lastErr = Nil
    /\ isInstalled /\ ~isUpdateRequired
    /\ ReconcileBuild

TickEnd ==
    /\ \/ lastOp \in {"InstallRelease", "UpdateRelease", "ReconcileRelease"}
       \/ lastOp = "Sync" /\ lastErr # Nil
    /\ NewManager

\* the objects the first tick finds: none, or objects that someone changed
InitClusters ==
    {NoObjects,
     [n \in Names |-> IF n = "a" THEN Live([x |-> Variant(NumTexts) + 1, y |-> 1])
                      ELSE Live([x |-> 1, y |-> 0])]}

\* the first tick finds any history the first manager can find
InitLoop ==
    /\ store \in InitHistories
    /\ cluster \in InitClusters
    /\ chart \in Texts
    /\ isInstalled = FALSE
    /\ isUpdateRequired = FALSE
    /\ deployedRelease = NoRelease
    /\ crashed = FALSE
    /\ walk = Idle
    /\ lastOp = "NewManager"
    /\ lastErr = Nil
    /\ lastRet = <<NoRelease, NoRelease>>
    /\ calls = <<>>

NextLoop ==
    \/ TickSync
    \/ TickInstall
    \/ TickUpdate
    \/ TickReconcile
    \/ ReconcileGet
    \/ ReconcileCreate
    \/ ReconcilePatch
    \/ TickEnd

\* the loop keeps ticking: a call returns, and the next call or the next tick
\* follows
SpecLoop == InitLoop /\ [][NextLoop]_vars /\ WF_vars(NextLoop)

-----------------------------------------------------------------------------
(* Properties of Sync *)

\* the last step was a call of op that returned err
ReturnedFrom(op) == lastOp = op /\ ~crashed

HasCall(log, c, results) == \E i \in DOMAIN log : log[i].call = c /\ log[i].res \in results

\* C1: after every Sync that returns no error and finds a deployed revision,
\* isUpdateRequired says whether the deployed manifest text differs from the
\* candidate's, also when the manager has run Sync before.
C1_UpdateRequiredIffManifestsDiffer ==
    (ReturnedFrom("Sync") /\ lastErr = Nil /\ Deployed(store) # NoRelease)
        => (isUpdateRequired <=> Deployed(store).Manifest # chart)

\* C2: whenever Sync returns without error and the store holds no deployed
\* revision, isInstalled is false afterwards, whatever the manager did before.
C2_NotInstalledWithoutDeployed ==
    (ReturnedFrom("Sync") /\ lastErr = Nil /\ Deployed(store) = NoRelease)
        => ~isInstalled

\* C3, as claimed: when Sync returns without error, the history is exactly the
\* revisions that had status deployed before the call.
C3_OnlyDeployedRemain ==
    [][(lastOp' = "Sync" /\ lastErr' = Nil) => store' = DeployedAll(store)]_vars

\* C3, amended: when Sync returns without error, the history is exactly the
\* revisions that had status deployed or no status information before the
\* call: every revision with a status other than deployed has been deleted,
\* and no deployed revision has been.
C3_StaleRevisionsPruned ==
    [][(lastOp' = "Sync" /\ lastErr' = Nil)
          => store' = {r \in store : r.Status \in {"deployed", "noinfo"}}]_vars

\* a Sync that deleted two stale revisions and kept the deployed one
C3_Witness ==
    /\ ReturnedFrom("Sync") /\ lastErr = Nil
    /\ Count(calls, "Delete") >= 2
    /\ Deployed(store) # NoRelease
    /\ Cardinality(store) = 1

-----------------------------------------------------------------------------
(* Properties of InstallRelease, UpdateRelease and UninstallRelease *)

\* the mutation returned a release together with its error
PartialFailure(c) == HasCall(calls, c, {"partial", "recorded"})

\* err names the failure base in its text
Mentions(err, base) == \A i \in DOMAIN base.msg : Contains(err.msg, base.msg[i])

\* the answers a compensating uninstall or rollback can fail with
FailureAnswers == {"notfound", "error", "mapping"}

\* C4: when install returns a partial release with an error and the
\* compensating uninstall succeeds or fails with release-not-found,
\* InstallRelease returns no release and an error that wraps the install error
\* and nothing of the uninstall.
C4_NotFoundOnUninstallNotEscalated ==
    (ReturnedFrom("InstallRelease") /\ PartialFailure("Install")
     /\ HasCall(calls, "Uninstall", {"ok", "notfound"}))
        => /\ lastRet = <<NoRelease, NoRelease>>
           /\ Is(lastErr, ErrInstall)
           /\ lastErr.msg = <<"failed to install release">> \o ErrInstall.msg
           /\ ~Is(lastErr, ErrReleaseNotFound)

\* an install that failed with a partial release, whose uninstall found nothing
C4_Witness ==
    /\ ReturnedFrom("InstallRelease") /\ PartialFailure("Install")
    /\ HasCall(calls, "Uninstall", {"notfound"})
    /\ lastErr # Nil

\* C5: when install returns a partial release with an error and the
\* compensating uninstall fails with anything but release-not-found,
\* InstallRelease returns no release and an error that names both failures.
C5_UninstallFailureEscalated ==
    \A un \in FailureAnswers :
        (ReturnedFrom("InstallRelease") /\ PartialFailure("Install")
         /\ HasCall(calls, "Uninstall", {un}) /\ OutcomeErr(un) # ErrReleaseNotFound)
            => /\ lastRet = <<NoRelease, NoRelease>>
               /\ Mentions(lastErr, ErrInstall)
               /\ Mentions(lastErr, OutcomeErr(un))
               /\ Is(lastErr, OutcomeErr(un))

\* C6: when upgrade returns a partial release with an error, exactly one
\* forced rollback is issued, and when it succeeds UpdateRelease returns the
\* update error and no release.
C6_RollbackSuccessKeepsUpdateError ==
    (ReturnedFrom("UpdateRelease") /\ PartialFailure("Upgrade"))
        => /\ Count(calls, "Rollback") = 1
           /\ \A i \in DOMAIN calls : calls[i].call = "Rollback" => calls[i].arg = 1
           /\ HasCall(calls, "Rollback", {"ok"})
                => /\ lastRet = <<NoRelease, NoRelease>>
                   /\ Is(lastErr, ErrUpgrade)
                   /\ lastErr.msg = <<"failed to update release">> \o ErrUpgrade.msg

\* an update that failed with a partial release and was rolled back
C6_Witness ==
    /\ ReturnedFrom("UpdateRelease") /\ PartialFailure("Upgrade")
    /\ HasCall(calls, "Rollback", {"ok"})
    /\ Deployed(store).Version = LastVersion(store)

\* C7: when upgrade returns a partial release with an error and the rollback
\* fails with any error, release-not-found included, UpdateRelease returns an
\* error that names both failures.
C7_RollbackFailureAlwaysEscalated ==
    \A rb \in FailureAnswers :
        (ReturnedFrom("UpdateRelease") /\ PartialFailure("Upgrade")
         /\ HasCall(calls, "Rollback", {rb}))
            => /\ lastRet = <<NoRelease, NoRelease>>
               /\ Mentions(lastErr, ErrUpgrade)
               /\ Mentions(lastErr, OutcomeErr(rb))
               /\ Is(lastErr, OutcomeErr(rb))

\* an update that failed with a partial release, whose rollback found nothing
C7_Witness ==
    /\ ReturnedFrom("UpdateRelease") /\ PartialFailure("Upgrade")
    /\ HasCall(calls, "Rollback", {"notfound"})
    /\ Is(lastErr, ErrReleaseNotFound)

\* C8: when History answers with an empty sequence, UninstallRelease returns
\* driver.ErrReleaseNotFound and does not call the uninstall mutation; the
\* mutation is called only after History answered, without error, with at
\* least one revision.
C8_EmptyHistoryIsNotFound ==
    lastOp = "UninstallRelease"
        => /\ (calls[1].res = "ok" /\ calls[1].arg = 0)
                => /\ lastErr = ErrReleaseNotFound
                   /\ lastRet = <<NoRelease, NoRelease>>
                   /\ Count(calls, "Uninstall") = 0
                   /\ ~crashed
           /\ Count(calls, "Uninstall") > 0
                => /\ calls[1].call = "History" /\ calls[1].res = "ok"
                   /\ calls[1].arg >= 1

\* an uninstall of a release without history
C8_Witness ==
    /\ ReturnedFrom("UninstallRelease")
    /\ calls = <<Call("History", 0, "ok")>>
    /\ lastErr = ErrReleaseNotFound

-----------------------------------------------------------------------------
(* Properties of ReconcileRelease *)

\* every object of manifest t exists live with every rendered field at its
\* rendered value; the live object may have more fields
Converged(cl, t) ==
    \A i \in DOMAIN Build(t) :
        LET e == Build(t)[i]
        IN  /\ cl[e.name].exists
            /\ \A f \in Fields : Has(e.fields, f) => cl[e.name].fields[f] = e.fields[f]

\* a rendered field is missing live or has another value
NeedsChange(live, expected) ==
    \E f \in Fields : Has(expected, f) /\ live[f] # expected[f]

CallsOn(log, c, i) == Cardinality({k \in DOMAIN log : log[k].call = c /\ log[k].arg = i})

Answers(log, c, i) == {log[k].res : k \in {j \in DOMAIN log : log[j].call = c /\ log[j].arg = i}}

\* no Build and no Get failed, and no patch failed to serialize
ReadsSucceeded(log, err) ==
    /\ \A k \in DOMAIN log : log[k].res # "error"
    /\ ~Contains(err.msg, "failed to marshal JSON patch")

\* a step of a running ReconcileRelease, its first and its last included
WalkStep == lastOp' \in {"Visit", "ReconcileRelease"} /\ ~crashed'

\* the walk is between two objects: no Create and no Patch is to be sent
Reading(w) == w.pc \in {"idle", "get"}

\* every Get of log found its object, with every field manifest t renders at
\* the rendered value
ReadConverged(log, t) ==
    \A k \in {j \in DOMAIN log : log[j].call = "Get"} :
        /\ log[k].res # "notfound"
        /\ log[k].res = "ok" => ~NeedsChange(log[k].read, Build(t)[log[k].arg].fields)

\* the object the Get of object i returned
ReadOf(log, i) == log[CHOOSE k \in DOMAIN log : log[k].call = "Get" /\ log[k].arg = i].read

\* the operations of the Patch of object i
PatchOf(log, i) == log[CHOOSE k \in DOMAIN log : log[k].call = "Patch" /\ log[k].arg = i].ops

\* C9: a ReconcileRelease that finds every object it reads converged issues
\* no create and no patch and, when its reads succeed, returns no error; a
\* step of it on a converged cluster changes no object and prepares no
\* change, and no step changes an object but by a create or a patch that
\* succeeded; and a Sync that finds the deployed manifest equal to the
\* candidate, on a manager that had no update pending, leaves isInstalled
\* true and isUpdateRequired false.
C9_ConvergedReconcileIsNoOp ==
    [][/\ (lastOp' = "ReconcileRelease" /\ ~crashed'
           /\ ReadConverged(calls', deployedRelease.Manifest))
              => /\ Count(calls', "Create") = 0
                 /\ Count(calls', "Patch") = 0
                 /\ ReadsSucceeded(calls', lastErr') => lastErr' = Nil
       /\ (WalkStep /\ Reading(walk) /\ Converged(cluster, deployedRelease.Manifest))
              => /\ cluster' = cluster
                 /\ Reading(walk')
       /\ (WalkStep /\ cluster' # cluster)
              => /\ calls'[Len(calls')].call \in {"Create", "Patch"}
                 /\ calls'[Len(calls')].res = "ok"
       /\ (lastOp' = "Sync" /\ lastErr' = Nil /\ ~isUpdateRequired
           /\ Deployed(store').Manifest = chart)
              => isInstalled' /\ ~isUpdateRequired'
      ]_vars

\* a Sync found nothing to update, and the ReconcileRelease after it read two
\* converged objects, one with a live-only field, and touched neither
C9_Witness ==
    /\ ReturnedFrom("ReconcileRelease") /\ lastErr = Nil
    /\ isInstalled /\ ~isUpdateRequired
    /\ Converged(cluster, deployedRelease.Manifest)
    /\ ReadConverged(calls, deployedRelease.Manifest)
    /\ cluster["a"].fields.y = 1
    /\ Count(calls, "Get") = 2 /\ Count(calls, "Create") = 0 /\ Count(calls, "Patch") = 0
    /\ ReadOf(calls, 1).y = 1

\* C10: a Get answers with the live object as it is when it is read, and for
\* each object ReconcileRelease visits exactly one of: the Get did not find
\* it, and one create, of the rendered object, and no patch is issued; the Get
\* found it with a rendered field that differs, and one patch, the one
\* computed from the object read, and no create is issued; the Get found it
\* with no rendered field that differs, and nothing is issued.
C10_OneOutcomePerObject ==
    [][/\ (lastOp' = "ReconcileRelease" /\ ~crashed')
          => \A i \in DOMAIN WalkObjects :
                LET e       == WalkObjects[i]
                    got     == Answers(calls', "Get", i)
                    creates == CallsOn(calls', "Create", i)
                    patches == CallsOn(calls', "Patch", i)
                    noPatch == /\ Contains(lastErr'.msg, "failed to marshal JSON patch")
                               /\ calls'[Len(calls')].call = "Get"
                               /\ calls'[Len(calls')].arg = i
                IN  /\ CallsOn(calls', "Get", i) <= 1
                    /\ got = {"notfound"} => creates = 1 /\ patches = 0
                    /\ (got = {"ok"} /\ ~noPatch)
                          => /\ NeedsChange(ReadOf(calls', i), e.fields)
                                   => /\ creates = 0 /\ patches = 1
                                      /\ PatchOf(calls', i) =
                                            generatePatch(ReadOf(calls', i), e.fields, "ok").patch.ops
                             /\ ~NeedsChange(ReadOf(calls', i), e.fields)
                                   => creates = 0 /\ patches = 0
                    /\ (got \in {{}, {"error"}} \/ noPatch) => creates = 0 /\ patches = 0
       /\ (WalkStep /\ walk.pc = "get")
          => LET live == cluster[WalkObjects[walk.i].name]
                 get  == calls'[Len(calls')]
             IN  /\ get.call = "Get" /\ get.arg = walk.i
                 /\ get.res = "notfound" => ~live.exists
                 /\ get.res = "ok" => live.exists /\ get.read = live.fields
       /\ (WalkStep /\ walk.pc = "create" /\ calls'[Len(calls')].res = "ok")
          => cluster'[WalkObjects[walk.i].name] = Live(WalkObjects[walk.i].fields)
      ]_vars

\* a ReconcileRelease that created one object and patched the other
C10_Witness ==
    /\ ReturnedFrom("ReconcileRelease") /\ lastErr = Nil
    /\ Count(calls, "Create") = 1 /\ Count(calls, "Patch") = 1

\* the object calls of a walk: everything after the Build
ObjectCalls(log) == {k \in DOMAIN log : log[k].call \in {"Get", "Create", "Patch"}}

\* the last call of the log failed, or the patch of the object it read did
\* not serialize
FailedAt(log, err) ==
    IF log[Len(log)].res = "error" \/ Contains(err.msg, "failed to marshal JSON patch")
    THEN log[Len(log)].arg ELSE 0

\* C11: ReconcileRelease calls on the objects in manifest order, and when the
\* get, the patch computation, the create or the patch of object i fails it
\* returns an error that names the failure, has issued no call on an object
\* after i and changes nothing in the step that fails; a Build that fails is
\* its only call.  No step of the walk changes an object other than the one
\* the walk is at, so the objects before i keep what was created or patched:
\* a patch that succeeds leaves each field it names at the rendered value
\* and the other fields as they were.
C11_FailFastInManifestOrder ==
    [][/\ (lastOp' = "ReconcileRelease" /\ ~crashed' /\ calls'[1].res = "ok")
          => LET objs == WalkObjects
                 log  == calls'
                 i    == FailedAt(log, lastErr')
                 done == IF i = 0 THEN Len(objs) ELSE i - 1
             IN  /\ \A j, k \in ObjectCalls(log) : j < k => log[j].arg <= log[k].arg
                 /\ \A k \in DOMAIN log : log[k].res = "error" => k = Len(log)
                 /\ lastErr' # Nil <=> i # 0
                 /\ i # 0 => /\ Mentions(lastErr', ErrTransport)
                             /\ \A k \in ObjectCalls(log) : log[k].arg <= i
                             /\ cluster' = cluster
                 /\ \A j \in 1..done : CallsOn(log, "Get", j) = 1
       /\ (lastOp' = "ReconcileRelease" /\ ~crashed' /\ calls'[1].res = "error")
          => Len(calls') = 1 /\ Mentions(lastErr', ErrTransport) /\ cluster' = cluster
       /\ (WalkStep /\ walk = Idle) => cluster' = cluster
       /\ (WalkStep /\ walk # Idle)
          => LET n == WalkObjects[walk.i].name
             IN  /\ \A q \in Names \ {n} : cluster'[q] = cluster[q]
                 /\ (walk.pc = "patch" /\ calls'[Len(calls')].res = "ok")
                       => /\ cluster[n].exists /\ cluster'[n].exists
                          /\ \A f \in Fields :
                                cluster'[n].fields[f] =
                                    IF \E o \in walk.ops : o.path = f
                                    THEN WalkObjects[walk.i].fields[f]
                                    ELSE cluster[n].fields[f]
      ]_vars

\* a ReconcileRelease that changed the first object and failed on the second
C11_Witness ==
    /\ ReturnedFrom("ReconcileRelease") /\ lastErr # Nil
    /\ calls[Len(calls)].arg = 2 /\ calls[Len(calls)].res = "error"
    /\ \E k \in DOMAIN calls : calls[k].call \in {"Create", "Patch"} /\ calls[k].arg = 1
                                /\ calls[k].res = "ok"
    /\ cluster["a"].exists /\ ~NeedsChange(cluster["a"].fields, Build(deployedRelease.Manifest)[1].fields)

\* the serialized objects generatePatch is applied to
Serialized == [Fields -> 0..(Variant(NumTexts) + 1)]

\* existing has every field of expected at the same value, and more fields
OnlyLiveFieldsDiffer(existing, expected) ==
    /\ \A f \in Fields : Has(expected, f) => existing[f] = expected[f]
    /\ \E f \in Fields : Has(existing, f) /\ ~Has(expected, f)

\* generatePatch on every pair of serialized objects: no remove operation,
\* no empty patch that is not nil, and nil when only live fields differ
NoRemoveForAnyPair ==
    \A existing, expected \in Serialized :
        LET g == generatePatch(existing, expected, "ok")
        IN  /\ g.err = Nil
            /\ \A o \in g.patch.ops : o.op # "remove"
            /\ ~g.patch.isNil => g.patch.ops # {}
            /\ OnlyLiveFieldsDiffer(existing, expected) => g.patch = NilPatch

\* C12: generatePatch returns no remove operation for any pair of objects,
\* and nil, not an empty patch, for every pair that differs only by fields
\* existing has and expected has not; and no step of a ReconcileRelease
\* prepares or sends a patch with a remove operation or takes a field away
\* from a live object.
C12_NeverRemoves ==
    [][/\ NoRemoveForAnyPair
       /\ WalkStep
             => /\ \A k \in DOMAIN calls' : \A o \in calls'[k].ops : o.op # "remove"
                /\ \A o \in walk'.ops : o.op # "remove"
                /\ \A n \in Names : \A f \in Fields :
                      (cluster[n].exists /\ Has(cluster[n].fields, f))
                          => Has(cluster'[n].fields, f)
      ]_vars

\* a ReconcileRelease that patched an object it had read with a live-only
\* field, which the object still has
C12_Witness ==
    /\ ReturnedFrom("ReconcileRelease") /\ lastErr = Nil
    /\ \E k \in DOMAIN calls : calls[k].call = "Patch" /\ calls[k].arg = 1
                                /\ calls[k].res = "ok"
    /\ ReadOf(calls, 1).y = 1
    /\ cluster["a"].fields.y = 1
    /\ ~Has(Build(deployedRelease.Manifest)[1].fields, "y")

\* C13: when the upgrade mutation succeeds, UpdateRelease returns the release
\* the manager holds as deployed first and the new release, which is now the
\* deployed revision of the store, second, with no error and no rollback.
C13_UpdateReturnsBothReleases ==
    [][(lastOp' = "UpdateRelease" /\ HasCall(calls', "Upgrade", {"ok"}))
          => /\ lastRet' = <<deployedRelease, Deployed(store')>>
             /\ lastRet'[2] = Release(LastVersion(store) + 1, "deployed", chart)
             /\ lastErr' = Nil
             /\ Count(calls', "Rollback") = 0
             /\ ~crashed'
      ]_vars

\* an update that returned the release deployed before it and the one after
C13_Witness ==
    /\ ReturnedFrom("UpdateRelease") /\ lastErr = Nil
    /\ lastRet[1] # NoRelease /\ lastRet[1] = deployedRelease
    /\ lastRet[2] = Deployed(store)
    /\ lastRet[1].Version < lastRet[2].Version
    /\ lastRet[1].Manifest # lastRet[2].Manifest

-----------------------------------------------------------------------------
(* Properties of all methods *)

\* the calls the methods issue on the store, on Helm and on the objects
External == {"History", "Deployed", "Delete", "DryRunUpgrade", "Install", "Upgrade",
             "Rollback", "Uninstall", "Get", "Create", "Patch"}

\* C14: every call a method issues on the store, on Helm or on a cluster
\* object is bound to the context the method was called with.
C14_EveryCallBoundToContext ==
    \A k \in DOMAIN calls : calls[k].call \in External => calls[k].ctx

\* the positions of the calls of c in log
Positions(log, c) == {k \in DOMAIN log : log[k].call = c}

\* C15: the calls of one Sync are a History read, then the Deletes, each of a
\* revision that is not deployed, then at most one read of the deployed
\* revision, then at most one dry-run render, issued only after that read
\* found a revision; Sync issues no other call, adds nothing to the store and
\* changes no object.
C15_SyncCallOrder ==
    [][lastOp' = "Sync"
          => /\ Positions(calls', "History") = {1}
             /\ \A k \in DOMAIN calls' :
                    calls'[k].call \in {"History", "Delete", "Deployed", "DryRunUpgrade"}
             /\ \A j \in Positions(calls', "Delete") :
                    /\ \A k \in Positions(calls', "Deployed") : j < k
                    /\ \E r \in store : r.Version = calls'[j].arg /\ r.Status # "deployed"
             /\ Count(calls', "Deployed") <= 1
             /\ Count(calls', "DryRunUpgrade") <= 1
             /\ \A k \in Positions(calls', "DryRunUpgrade") :
                    /\ k = Len(calls')
                    /\ calls'[k - 1] = Call("Deployed", 0, "ok")
             /\ store' \subseteq store
             /\ cluster' = cluster
      ]_vars

\* a Sync that read the history, deleted a stale revision, read the deployed
\* revision and rendered the candidate
C15_Witness ==
    /\ ReturnedFrom("Sync") /\ lastErr = Nil
    /\ Len(calls) >= 4
    /\ calls[2].call = "Delete"
    /\ calls[Len(calls) - 1].call = "Deployed"
    /\ calls[Len(calls)].call = "DryRunUpgrade"

\* the revisions Sync is to delete: those with a status other than deployed
StaleVersions(s) == {r.Version : r \in {q \in s : q.Status \notin {"deployed", "noinfo"}}}

\* C16: in Sync a Delete that answers not found does not stop the pruning:
\* when no History read and no Delete fails with another error, every stale
\* revision gets its Delete.  A History read or a Delete that fails with
\* another error is the last call of the Sync, which returns an error that
\* wraps it and leaves isInstalled, isUpdateRequired and the held release as
\* they were.
C16_DeleteNotFoundTolerated ==
    [][lastOp' = "Sync"
          => LET log    == calls'
                 failed == {k \in Positions(log, "History") \cup Positions(log, "Delete") :
                               log[k].res = "error"}
             IN  /\ (failed = {} /\ log[1].res = "ok")
                        => {log[k].arg : k \in Positions(log, "Delete")} = StaleVersions(store)
                 /\ \A k \in Positions(log, "Delete") :
                        log[k].res = "notfound" => ~Is(lastErr', ErrReleaseNotFound)
                 /\ \A k \in failed :
                        /\ k = Len(log)
                        /\ lastErr' # Nil /\ Is(lastErr', ErrTransport)
                        /\ Count(log, "Deployed") = 0
                        /\ Count(log, "DryRunUpgrade") = 0
                        /\ mgr' = mgr
      ]_vars

\* a Sync whose first Delete answered not found and that deleted another
\* stale revision after it
C16_Witness ==
    /\ ReturnedFrom("Sync") /\ lastErr = Nil
    /\ Len(calls) >= 3
    /\ calls[2].call = "Delete" /\ calls[2].res = "notfound"
    /\ calls[3].call = "Delete" /\ calls[3].res = "ok"

\* the tick found the release installed and up to date, and ReconcileRelease
\* had nothing to create or patch
Settled ==
    /\ ReturnedFrom("ReconcileRelease") /\ lastErr = Nil
    /\ isInstalled /\ ~isUpdateRequired
    /\ Deployed(store).Manifest = chart
    /\ Count(calls, "Create") = 0 /\ Count(calls, "Patch") = 0

\* every revision of the store carries status information
HasStatusInfo == \A r \in store : r.Status # "noinfo"

\* the collaborators have stopped failing: from some step on, no call of
\* the loop returns an error
NoMoreFailures == <>[](lastErr = Nil)

\* a Sync that reports the release as not installed has left the history
\* empty, so no leftover revision blocks the install of that tick
InstallStartsClean == (lastOp = "Sync" /\ lastErr = Nil /\ ~isInstalled) => store = {}

\* C17, as claimed: in the controller loop, from every starting history, no
\* leftover revision blocks an install; and when the collaborators stop
\* failing the loop reaches a tick where Sync reports installed and no update
\* required and ReconcileRelease issues no create and no patch.
C17_ConvergesFromEveryHistory ==
    /\ []InstallStartsClean
    /\ NoMoreFailures => <>Settled

\* C17, amended: the same, from every starting history whose revisions all
\* carry status information.
C17_ConvergesUnderRetry ==
    HasStatusInfo
        => /\ []InstallStartsClean
           /\ NoMoreFailures => <>Settled

\* a settled tick that came after a failed update was rolled back and the
\* update was tried again
C17_Witness ==
    /\ Settled
    /\ Deployed(store).Version >= 4

\* C18: in every reachable state isUpdateRequired implies isInstalled and
\* isInstalled implies that the manager holds a deployed release, so a
\* ReconcileRelease on an installed manager does not dereference nil.
C18_FlagsImplyHeldRelease ==
    /\ isUpdateRequired => isInstalled
    /\ isInstalled => deployedRelease # NoRelease
    /\ (lastOp = "ReconcileRelease" /\ crashed) => ~isInstalled

\* a Sync that set isInstalled and then failed to render the candidate
C18_Witness ==
    /\ ReturnedFrom("Sync")
    /\ Contains(lastErr.msg, "failed to get candidate release")
    /\ isInstalled /\ deployedRelease # NoRelease

\* C19: InstallRelease, UpdateRelease, ReconcileRelease and UninstallRelease
\* leave isInstalled, isUpdateRequired and the held release as they were,
\* whether they succeed, fail or panic.
C19_OnlySyncChangesManager ==
    [][lastOp' \in {"InstallRelease", "UpdateRelease", "ReconcileRelease", "UninstallRelease"}
          => mgr' = mgr]_vars

\* a successful install on a manager that still says not installed
C19_Witness ==
    /\ ReturnedFrom("InstallRelease") /\ lastErr = Nil
    /\ lastRet[1] = Deployed(store) /\ lastRet[1] # NoRelease
    /\ ~isInstalled /\ deployedRelease = NoRelease

\* C20: UninstallRelease returns for every outcome of the uninstall mutation:
\* when the history is not empty and the mutation fails, with or without a
\* response, the method returns an error and does not panic.
C20_UninstallAlwaysReturns ==
    (lastOp = "UninstallRelease" /\ HasCall(calls, "Uninstall", {"partial", "noresp"}))
        => ~crashed /\ lastErr # Nil

=============================================================================
